---- MODULE Spec2Model ----
(***************************************************************************)
(* Clustered chat server (src/index.ts): worker processes share one SQLite *)
(* table "messages", each worker serves its own sockets, and io.emit fans  *)
(* a committed message out to the local sockets and, through the primary   *)
(* process, to the sockets of every other worker.                          *)
(***************************************************************************)
EXTENDS Integers, Sequences, FiniteSets, TLC

\* ---------------------------------------------------------------- bounds
MaxSocks == 2        \* connections opened in one behaviour
MaxSubs == 2         \* "chat message" submissions in one behaviour
MaxOffset == 1       \* largest serverOffset a client presents
FanSubs == 1         \* submissions in one behaviour of FairSpec
StoreSubs == 3       \* submissions in one behaviour of StoreSpec
MaxCPUs == 3         \* largest availableParallelism() of CoordSpec

\* ------------------------------------------------------- program constants
SQLITE_CONSTRAINT == 19
BasePort == 3000     \* process.env.PORT = (3000 + i).toString()

\* errno values of faults that are not constraint violations
\* (SQLITE_BUSY): everything the handler only logs
OtherErrnos == {5}

\* Worker processes, message texts and client offsets, in the order in which
\* a behaviour first uses them.  The code never inspects a worker's name, a
\* text or an offset beyond comparing offsets for equality, so a behaviour
\* is the same up to renaming them: the first one used is the first listed.
WorkerList == <<"w1", "w2">>
MsgList == <<"hi", "yo">>
ClientOffsetList == <<"t1", "t2", "t3">>

Range(f) == {f[i] : i \in DOMAIN f}
Workers == Range(WorkerList)
Msgs == Range(MsgList)
ClientOffsets == Range(ClientOffsetList)

\* The values of list a behaviour may use next, used being those in use.
Usable(list, used) ==
  used \cup {list[i] : i \in {j \in DOMAIN list : j = Cardinality(used) + 1}}

NoID == 0            \* an error object carries no lastID
Absent == -1         \* handshake.auth carries no serverOffset

\* What a client may present as serverOffset
ServerOffsets == {Absent} \cup 1..MaxOffset

VARIABLES
  messages,          \* the table: rows [id, client_offset, content] in rowid order
  sqlite_sequence,   \* AUTOINCREMENT: the largest id ever assigned
  socks,             \* one record per connection ever opened
  handlers,          \* one record per "chat message" submission
  inbox,             \* packets the primary has forwarded to a worker, FIFO
  primary,           \* the primary process: its place in the fork loop, its env
  procs              \* the worker processes forked so far, in fork order

vars == <<messages, sqlite_sequence, socks, handlers, inbox, primary, procs>>

\* ------------------------------------------------------ decimal strings
\* A string of decimal digits is the sequence of its digits; << >> is an
\* environment variable that is not set.
RECURSIVE NumToString(_)
\* (3000 + i).toString()
NumToString(n) == IF n < 10 THEN <<n>> ELSE NumToString(n \div 10) \o <<n % 10>>

RECURSIVE ParseInt(_)
\* parseInt(str, 10)
ParseInt(str) ==
  IF Len(str) = 1 THEN str[1]
  ELSE 10 * ParseInt(SubSeq(str, 1, Len(str) - 1)) + str[Len(str)]

\* Variant: every worker is given the base port.
PortEnv_Base(i) == NumToString(BasePort)

\* process.env.PORT = (3000 + i).toString()
PortEnv(i) == NumToString(BasePort + i)

\* parseInt(process.env.PORT || "3000", 10)
ListenPort(env) == ParseInt(IF env = << >> THEN NumToString(BasePort) ELSE env)

\* The primary once the fork loop, setupPrimary() and cluster.on("exit")
\* have run for n workers, and the workers it forked, all listening.
PrimaryServing(n) ==
  [pc |-> "serving", numCPUs |-> n, i |-> n, env |-> PortEnv(n - 1), logged |-> {}]

ProcsListening(n) ==
  [k \in 1..n |-> [env |-> PortEnv(k - 1), state |-> "listening",
                    port |-> ListenPort(PortEnv(k - 1))]]

\* ------------------------------------------------------------ the store
\* client_offset TEXT UNIQUE
HasOffset(tbl, co) == \E i \in 1..Len(tbl) : tbl[i].client_offset = co

\* Variant: every INSERT statement uses up an id, whether or not it stores a row.
NextId_PerAttempt == Len(handlers) + 1

\* id INTEGER PRIMARY KEY AUTOINCREMENT: one more than the largest id ever
\* used; an INSERT that fails assigns none.
NextId == sqlite_sequence + 1

\* Variant: the table has no unique index on client_offset.
UniqueViolation_NoIndex(tbl, co) == FALSE

\* The unique index decides whether the INSERT is rejected.
UniqueViolation(tbl, co) == HasOffset(tbl, co)

\* Variant: WHERE id >= ?
SelectAfter_Inclusive(tbl, off) ==
  SelectSeq(tbl, LAMBDA r : r.id >= off)

\* "SELECT id, content FROM messages WHERE id > ?": a rowid range scan,
\* rows come back in ascending id order.
SelectAfter(tbl, off) ==
  SelectSeq(tbl, LAMBDA r : r.id > off)

\* Variant: serverOffset || 1
OffsetOrZero_One(off) == IF off = Absent THEN 1 ELSE off

\* socket.handshake.auth.serverOffset || 0
OffsetOrZero(off) == IF off = Absent THEN 0 ELSE off

\* ---------------------------------------------------------------- Init
Init ==
  /\ messages = << >>
  /\ sqlite_sequence = 0
  /\ socks = << >>
  /\ handlers = << >>
  /\ inbox = [w \in Workers |-> << >>]
  /\ primary = PrimaryServing(Len(WorkerList))
  /\ procs = ProcsListening(Len(WorkerList))

\* ------------------------------------------------------------- delivery
Packet(kind, content, id) == [kind |-> kind, content |-> content, id |-> id]

\* Variant: a packet is written to the client whatever the state of the socket.
Deliver_Always(s, p) == [s EXCEPT !.received = Append(@, p)]

\* A packet written to a socket reaches the client only while it is connected.
Deliver(s, p) ==
  IF s.connected THEN [s EXCEPT !.received = Append(@, p)] ELSE s

\* The adapter's local broadcast: every socket attached to worker w.
BroadcastLocal(ss, w, p) ==
  [i \in 1..Len(ss) |-> IF ss[i].worker = w THEN Deliver(ss[i], p) ELSE ss[i]]

ConnectedSocks == {i \in 1..Len(socks) : socks[i].connected}

\* ------------------------------------------------------- connection handler
\* io.on("connection"): the socket is already attached to its worker when the
\* handler runs; the "chat message" listener is registered first, then a
\* socket that was not recovered awaits db.each.
\* Variant: the replay is not guarded by socket.recovered.
NewSock_AlwaysReplay(w, off, rec) ==
  [worker |-> w, serverOffset |-> off, recovered |-> rec, connected |-> TRUE,
   pc |-> "each",
   pending |-> << >>, snap |-> 0, fault |-> FALSE, received |-> << >>]

NewSock(w, off, rec) ==
  [worker |-> w, serverOffset |-> off, recovered |-> rec, connected |-> TRUE,
   pc |-> IF rec THEN "done" ELSE "each",
   pending |-> << >>, snap |-> 0, fault |-> FALSE, received |-> << >>]

Connect(w, off, rec) ==
  /\ Len(socks) < MaxSocks
  /\ w \in Usable(WorkerList, {socks[i].worker : i \in 1..Len(socks)})
  /\ socks' = Append(socks, NewSock(w, off, rec))
  /\ UNCHANGED <<messages, sqlite_sequence, handlers, inbox, primary, procs>>

\* The SELECT of db.each runs in the database: it reads the table as it is
\* now (snap records how many rows the table had, for the properties).
ReplayQuery(s) ==
  /\ socks[s].pc = "each"
  /\ LET rs == SelectAfter(messages, OffsetOrZero(socks[s].serverOffset))
     IN socks' = [socks EXCEPT ![s].pending = rs, ![s].snap = Len(messages),
                               ![s].pc = IF rs = << >> THEN "done" ELSE "rows"]
  /\ UNCHANGED <<messages, sqlite_sequence, handlers, inbox, primary, procs>>

\* The row callback: socket.emit("chat message", row.content, row.id)
ReplayRow(s) ==
  /\ socks[s].pc = "rows"
  /\ LET r == Head(socks[s].pending)
         rest == Tail(socks[s].pending)
         t == Deliver(socks[s], Packet("replay", r.content, r.id))
     IN socks' = [socks EXCEPT ![s] =
                    [t EXCEPT !.pending = rest,
                              !.pc = IF rest = << >> THEN "done" ELSE "rows"]]
  /\ UNCHANGED <<messages, sqlite_sequence, handlers, inbox, primary, procs>>

\* Variant: the catch closes the connection.
ReplayFault_TearDown(s) ==
  /\ socks[s].pc = "each"
  /\ socks' = [socks EXCEPT ![s].pending = << >>, ![s].snap = Len(messages),
                            ![s].pc = "done", ![s].fault = TRUE,
                            ![s].connected = FALSE]
  /\ UNCHANGED <<messages, sqlite_sequence, handlers, inbox, primary, procs>>

\* db.each rejects: the catch logs and the connection handler goes on to
\* register the "disconnect" listener (snap as in ReplayQuery).
ReplayFault(s) ==
  /\ socks[s].pc = "each"
  /\ socks' = [socks EXCEPT ![s].pending = << >>, ![s].snap = Len(messages),
                            ![s].pc = "done", ![s].fault = TRUE]
  /\ UNCHANGED <<messages, sqlite_sequence, handlers, inbox, primary, procs>>

Disconnect(s) ==
  /\ socks[s].connected
  /\ socks' = [socks EXCEPT ![s].connected = FALSE]
  /\ UNCHANGED <<messages, sqlite_sequence, handlers, inbox, primary, procs>>

\* ----------------------------------------------------- "chat message" handler
\* A handler started for socket s: it has called db.run and waits for it.
NewHandler(s, msg, co, res) ==
  [sock |-> s, worker |-> socks[s].worker, msg |-> msg, clientOffset |-> co,
   pc |-> "resumed", result |-> res, calls |-> << >>, acked |-> FALSE]

\* The client emits "chat message" (msg, clientOffset, callback); the handler
\* starts and suspends at await db.run, and the INSERT executes in the
\* database, atomically with respect to the INSERTs of all workers: a new
\* row, a rejected duplicate, or another fault.  The handler changes nothing
\* before db.run settles, so its start and the INSERT are one step; it
\* resumes in a later step (Resume).
Arrive(s, msg, co) ==
  /\ socks[s].connected
  /\ msg \in Usable(MsgList, {handlers[i].msg : i \in 1..Len(handlers)})
  /\ co \in Usable(ClientOffsetList, {handlers[i].clientOffset : i \in 1..Len(handlers)})
  /\ \/ /\ ~UniqueViolation(messages, co)
        /\ messages' = Append(messages,
             [id |-> NextId, client_offset |-> co, content |-> msg])
        /\ sqlite_sequence' = NextId
        /\ handlers' = Append(handlers,
             NewHandler(s, msg, co, [errno |-> 0, lastID |-> NextId]))
     \/ /\ UniqueViolation(messages, co)
        /\ handlers' = Append(handlers,
             NewHandler(s, msg, co, [errno |-> SQLITE_CONSTRAINT, lastID |-> NoID]))
        /\ UNCHANGED <<messages, sqlite_sequence>>
     \/ /\ \E e \in OtherErrnos :
             handlers' = Append(handlers,
               NewHandler(s, msg, co, [errno |-> e, lastID |-> NoID]))
        /\ UNCHANGED <<messages, sqlite_sequence>>
  /\ UNCHANGED <<socks, inbox, primary, procs>>

Submit(s, msg, co) == Len(handlers) < MaxSubs /\ Arrive(s, msg, co)

\* try-branch taken: db.run resolved
Resolved(res) == res.errno = 0

\* catch-branch: if (e.errno === 19) callback()
IsConstraint(res) == res.errno = SQLITE_CONSTRAINT

\* One call the handler makes: io.emit, callback() or console.error.
\* aud records the sockets that were connected when io.emit ran.
Call(op, content, id, aud) ==
  [op |-> op, content |-> content, id |-> id, aud |-> aud]

\* Variant: callback() before io.emit
TryCalls_AckFirst(h) ==
  << Call("ack", handlers[h].msg, handlers[h].result.lastID, {}),
     Call("emit", handlers[h].msg, handlers[h].result.lastID, ConnectedSocks) >>

\* Variant: callback() is called before and after io.emit.
TryCalls_AckTwice(h) ==
  << Call("ack", handlers[h].msg, handlers[h].result.lastID, {}),
     Call("emit", handlers[h].msg, handlers[h].result.lastID, ConnectedSocks),
     Call("ack", handlers[h].msg, handlers[h].result.lastID, {}) >>

\* Variant: io.emit carries the largest id of the table, not result.lastID.
TryCalls_StaleId(h) ==
  << Call("emit", handlers[h].msg, sqlite_sequence, ConnectedSocks),
     Call("ack", handlers[h].msg, sqlite_sequence, {}) >>

\* io.emit("chat message", msg, result.lastID); callback();
TryCalls(h) ==
  << Call("emit", handlers[h].msg, handlers[h].result.lastID, ConnectedSocks),
     Call("ack", handlers[h].msg, handlers[h].result.lastID, {}) >>

\* Variant: the duplicate is broadcast again before it is acknowledged.
CatchCalls_Rebroadcast(h) ==
  IF handlers[h].result.errno = SQLITE_CONSTRAINT
  THEN << Call("emit", handlers[h].msg, NoID, ConnectedSocks),
          Call("ack", handlers[h].msg, NoID, {}) >>
  ELSE << Call("error", handlers[h].msg, NoID, {}) >>

\* Variant: every error is acknowledged, the errno is not looked at.
CatchCalls_AlwaysAck(h) ==
  << Call("ack", handlers[h].msg, NoID, {}) >>

\* Variant: the duplicate publishes the row of its token again, then
\* acknowledges.
CatchCalls_RebroadcastRow(h) ==
  IF handlers[h].result.errno = SQLITE_CONSTRAINT
  THEN << Call("emit", handlers[h].msg,
               messages[CHOOSE k \in DOMAIN messages :
                          messages[k].client_offset = handlers[h].clientOffset].id,
               ConnectedSocks),
          Call("ack", handlers[h].msg, NoID, {}) >>
  ELSE << Call("error", handlers[h].msg, NoID, {}) >>

\* if (e.errno === 19) callback(); else console.error(...)
CatchCalls(h) ==
  IF IsConstraint(handlers[h].result)
  THEN << Call("ack", handlers[h].msg, NoID, {}) >>
  ELSE << Call("error", handlers[h].msg, NoID, {}) >>

\* The calls the handler makes once db.run has settled, in program order.
HandlerCalls(h) ==
  IF Resolved(handlers[h].result) THEN TryCalls(h) ELSE CatchCalls(h)

Emits(calls) == SelectSeq(calls, LAMBDA c : c.op = "emit")

\* The cluster adapter's broadcast on worker w: the sockets of w get the
\* packet at once, every other worker gets it forwarded by the primary
\* (setupPrimary), in the order the primary received it.
\* Variant: the packet is not handed to the primary.
Forward_LocalOnly(ib, w, p) == ib

Forward(ib, w, p) ==
  [v \in Workers |-> IF v = w THEN ib[v] ELSE Append(ib[v], p)]

RECURSIVE EmitAll(_, _, _)
EmitAll(ss, w, es) ==
  IF es = << >> THEN ss
  ELSE EmitAll(BroadcastLocal(ss, w, Packet("live", Head(es).content, Head(es).id)),
               w, Tail(es))

RECURSIVE ForwardAll(_, _, _)
ForwardAll(ib, w, es) ==
  IF es = << >> THEN ib
  ELSE ForwardAll(Forward(ib, w, Packet("live", Head(es).content, Head(es).id)),
                  w, Tail(es))

\* callback() writes the acknowledgement packet to the socket of the
\* submission: it reaches the client only while that socket is connected.
AckReaches(h, calls) ==
  /\ \E i \in DOMAIN calls : calls[i].op = "ack"
  /\ socks[handlers[h].sock].connected

\* The handler resumes after await db.run and runs to its end.
Resume(h) ==
  /\ handlers[h].pc = "resumed"
  /\ LET calls == HandlerCalls(h)
         w == handlers[h].worker
     IN /\ socks' = EmitAll(socks, w, Emits(calls))
        /\ inbox' = ForwardAll(inbox, w, Emits(calls))
        /\ handlers' = [handlers EXCEPT ![h].pc = "done", ![h].calls = calls,
                                        ![h].acked = AckReaches(h, calls)]
  /\ UNCHANGED <<messages, sqlite_sequence, primary, procs>>

\* ------------------------------------------------------- cluster adapter
\* createAdapter(): a worker delivers a forwarded packet to its own sockets.
WorkerReceive(w) ==
  /\ inbox[w] # << >>
  /\ socks' = BroadcastLocal(socks, w, Head(inbox[w]))
  /\ inbox' = [inbox EXCEPT ![w] = Tail(@)]
  /\ UNCHANGED <<messages, sqlite_sequence, handlers, primary, procs>>

\* ---------------------------------------------------------------- Next
Next ==
  \/ \E w \in Workers, off \in ServerOffsets, rec \in BOOLEAN : Connect(w, off, rec)
  \/ \E s \in 1..Len(socks) : ReplayQuery(s)
  \/ \E s \in 1..Len(socks) : ReplayRow(s)
  \/ \E s \in 1..Len(socks) : ReplayFault(s)
  \/ \E s \in 1..Len(socks) : Disconnect(s)
  \/ \E s \in 1..Len(socks), m \in Msgs, co \in ClientOffsets : Submit(s, m, co)
  \/ \E h \in 1..Len(handlers) : Resume(h)
  \/ \E w \in Workers : WorkerReceive(w)

Spec == Init /\ [][Next]_vars

\* The event loop of every process runs each pending callback, and the
\* database settles every statement: no enabled step is postponed forever.
Fairness ==
  /\ \A h \in 1..MaxSubs : WF_vars(h <= Len(handlers) /\ Resume(h))
  /\ \A w \in Workers : WF_vars(WorkerReceive(w))
  /\ \A s \in 1..MaxSocks : WF_vars(s <= Len(socks) /\ (ReplayQuery(s) \/ ReplayFault(s)))
  /\ \A s \in 1..MaxSocks : WF_vars(s <= Len(socks) /\ ReplayRow(s))

\* The behaviours with at most FanSubs submissions, under fairness.
FanNext == Next /\ Len(handlers') <= FanSubs

FairSpec == Init /\ [][FanNext]_vars /\ Fairness

\* The behaviours of the store under up to StoreSubs submissions from
\* connections that need no replay.
StoreSubmit(s, msg, co) == Len(handlers) < StoreSubs /\ Arrive(s, msg, co)

StoreNext ==
  \/ \E w \in Workers : Connect(w, Absent, TRUE)
  \/ \E s \in 1..Len(socks), m \in Msgs, co \in ClientOffsets : StoreSubmit(s, m, co)
  \/ \E h \in 1..Len(handlers) : Resume(h)
  \/ \E w \in Workers : WorkerReceive(w)

StoreSpec == Init /\ [][StoreNext]_vars

\* ------------------------------------------------------ the coordinator
\* The primary starts: availableParallelism() is n, nothing is forked yet.
CoordInit ==
  /\ messages = << >>
  /\ sqlite_sequence = 0
  /\ socks = << >>
  /\ handlers = << >>
  /\ inbox = [w \in Workers |-> << >>]
  /\ \E n \in 1..MaxCPUs :
       primary = [pc |-> "fork", numCPUs |-> n, i |-> 0, env |-> << >>, logged |-> {}]
  /\ procs = << >>

served == <<messages, sqlite_sequence, socks, handlers, inbox>>

\* One round of the loop: process.env.PORT = (3000 + i).toString();
\* cluster.fork(): the child gets the environment as it is now.
Fork ==
  /\ primary.pc = "fork"
  /\ primary.i < primary.numCPUs
  /\ primary' = [primary EXCEPT !.env = PortEnv(primary.i), !.i = @ + 1]
  /\ procs' = Append(procs, [env |-> PortEnv(primary.i), state |-> "starting", port |-> 0])
  /\ UNCHANGED served

\* The loop ends; setupPrimary(); cluster.on("exit", ...)
SetupPrimary ==
  /\ primary.pc = "fork"
  /\ primary.i = primary.numCPUs
  /\ primary' = [primary EXCEPT !.pc = "serving"]
  /\ UNCHANGED <<served, procs>>

\* A worker reaches server.listen(port)
WorkerListen(k) ==
  /\ procs[k].state = "starting"
  /\ procs' = [procs EXCEPT ![k].state = "listening", ![k].port = ListenPort(procs[k].env)]
  /\ UNCHANGED <<served, primary>>

\* A worker process terminates.
WorkerExit(k) ==
  /\ procs[k].state # "dead"
  /\ procs' = [procs EXCEPT ![k].state = "dead"]
  /\ UNCHANGED <<served, primary>>

\* Variant: the exit listener forks a replacement with the dead worker's port.
OnExit_Respawn(k) ==
  /\ primary.pc = "serving"
  /\ procs[k].state = "dead"
  /\ k \notin primary.logged
  /\ primary' = [primary EXCEPT !.logged = @ \cup {k}]
  /\ procs' = Append(procs, [env |-> procs[k].env, state |-> "starting", port |-> 0])
  /\ UNCHANGED served

\* cluster.on("exit", (worker) => console.log(`Worker ... died`))
OnExit(k) ==
  /\ primary.pc = "serving"
  /\ procs[k].state = "dead"
  /\ k \notin primary.logged
  /\ primary' = [primary EXCEPT !.logged = @ \cup {k}]
  /\ UNCHANGED <<served, procs>>

CoordNext ==
  \/ Fork
  \/ SetupPrimary
  \/ \E k \in 1..Len(procs) : WorkerListen(k)
  \/ \E k \in 1..Len(procs) : WorkerExit(k)
  \/ \E k \in 1..Len(procs) : OnExit(k)

\* The primary runs its loop and its listeners, a forked worker reaches
\* server.listen; whether and when a worker terminates is not up to the code.
CoordFairness ==
  /\ WF_vars(Fork)
  /\ WF_vars(SetupPrimary)
  /\ \A k \in 1..(2 * MaxCPUs) : WF_vars(k <= Len(procs) /\ WorkerListen(k))
  /\ \A k \in 1..(2 * MaxCPUs) : WF_vars(k <= Len(procs) /\ OnExit(k))

CoordSpec == CoordInit /\ [][CoordNext]_vars /\ CoordFairness

\* ------------------------------------------------------------ vocabulary
HandlerIds == 1..Len(handlers)
SockIds == 1..Len(socks)

RowsOf(co) == {i \in DOMAIN messages : messages[i].client_offset = co}

Called(h, op) == \E i \in DOMAIN handlers[h].calls : handlers[h].calls[i].op = op

EmitOf(h) == CHOOSE c \in Range(handlers[h].calls) : c.op = "emit"

Received(s, kind) == SelectSeq(socks[s].received, LAMBDA p : p.kind = kind)

Got(s, p) == \E i \in DOMAIN socks[s].received : socks[s].received[i] = p

Faulted(res) == res.errno \in OtherErrnos
Rejected(res) == res.errno = SQLITE_CONSTRAINT
Stored(res) == res.errno = 0

\* ------------------------------------------------------------------ C1
\* C1: in every reachable state the messages table holds at most one row for
\* each client offset (idempotency token), whatever the interleaving of the
\* submissions of the workers.
C1_TokenUnique ==
  \A i, j \in DOMAIN messages :
    messages[i].client_offset = messages[j].client_offset => i = j

\* Two submissions with the same token are in flight at once on different
\* workers: both INSERTs have executed, neither handler has resumed.
C1_Witness ==
  \E h, g \in HandlerIds :
    /\ h # g
    /\ handlers[h].clientOffset = handlers[g].clientOffset
    /\ handlers[h].worker # handlers[g].worker
    /\ handlers[h].pc = "resumed" /\ handlers[g].pc = "resumed"
    /\ Stored(handlers[h].result) /\ Rejected(handlers[g].result)

\* ------------------------------------------------------------------ C2
\* C2 as stated: two submissions of the same token and content that the store
\* answered (no fault) both yield the same sequence number, and exactly one
\* row exists for the token.
C2_SameSequenceTwice ==
  \A h, g \in HandlerIds :
    (/\ h < g
     /\ handlers[h].clientOffset = handlers[g].clientOffset
     /\ handlers[h].msg = handlers[g].msg
     /\ ~Faulted(handlers[h].result) /\ ~Faulted(handlers[g].result))
    => /\ handlers[h].result.lastID = handlers[g].result.lastID
       /\ Cardinality(RowsOf(handlers[h].clientOffset)) = 1

\* C2 amended: of the submissions of one token that the store answered, the
\* first is the new insert and returns the row's id; every later one is
\* rejected with SQLITE_CONSTRAINT and returns no sequence number; exactly
\* one row exists for the token and it keeps the id and content of the
\* first.
C2_DedupRejectsSecond ==
  \A h, g \in HandlerIds :
    (/\ h < g
     /\ handlers[h].clientOffset = handlers[g].clientOffset
     /\ ~Faulted(handlers[h].result) /\ ~Faulted(handlers[g].result))
    => /\ Rejected(handlers[g].result)
       /\ handlers[g].result.lastID = NoID
       /\ Cardinality(RowsOf(handlers[h].clientOffset)) = 1
       /\ Stored(handlers[h].result) =>
            \E i \in RowsOf(handlers[h].clientOffset) :
              /\ messages[i].id = handlers[h].result.lastID
              /\ messages[i].content = handlers[h].msg

\* The same token and content submitted twice, both answered by the store.
C2_Witness ==
  \E h, g \in HandlerIds :
    /\ h < g
    /\ handlers[h].clientOffset = handlers[g].clientOffset
    /\ handlers[h].msg = handlers[g].msg
    /\ Stored(handlers[h].result) /\ Rejected(handlers[g].result)
    /\ handlers[g].pc = "done"

\* ------------------------------------------------------------------ C3
\* A step in which the handler of a rejected duplicate resumes.
DuplicateResumes(h) ==
  /\ h \in HandlerIds
  /\ handlers[h].pc = "resumed" /\ handlers'[h].pc = "done"
  /\ Rejected(handlers[h].result)

\* A step in which a message arrives whose token is already in the table and
\* the store rejects it as a duplicate.
DuplicateArrives ==
  /\ Len(handlers') = Len(handlers) + 1
  /\ HasOffset(messages, handlers'[Len(handlers')].clientOffset)
  /\ Rejected(handlers'[Len(handlers')].result)

\* C3: when the submitted token is already in the store, the INSERT leaves
\* the table and the id counter as they were, and the handler then calls the
\* acknowledgment callback and nothing else: no packet reaches a socket or
\* another worker, and the table is still unchanged.
C3_DuplicateAckNoBroadcast ==
  [][ /\ DuplicateArrives =>
           (messages' = messages /\ sqlite_sequence' = sqlite_sequence)
      /\ \A h \in 1..MaxSubs :
           DuplicateResumes(h) =>
             /\ handlers'[h].calls = << Call("ack", handlers[h].msg, NoID, {}) >>
             /\ socks' = socks /\ inbox' = inbox
             /\ messages' = messages /\ sqlite_sequence' = sqlite_sequence
    ]_vars

\* A duplicate with another text than the stored row was acknowledged while a
\* socket was connected to the worker: the row still has its first text.
C3_Witness ==
  \E h \in HandlerIds :
    /\ Rejected(handlers[h].result) /\ handlers[h].pc = "done"
    /\ Called(h, "ack") /\ ~Called(h, "emit")
    /\ \E i \in RowsOf(handlers[h].clientOffset) :
         messages[i].content # handlers[h].msg
    /\ \E s \in SockIds : socks[s].connected /\ socks[s].worker = handlers[h].worker

\* ------------------------------------------------------------------ C4
\* C4: a handler whose INSERT stored a new row makes exactly two calls, in
\* this order: io.emit with the submitted text and the id the store assigned
\* to that row, then the acknowledgment callback.
C4_PublishThenAck ==
  \A h \in HandlerIds :
    (Stored(handlers[h].result) /\ handlers[h].pc = "done") =>
      /\ Len(handlers[h].calls) = 2
      /\ handlers[h].calls[1].op = "emit"
      /\ handlers[h].calls[2].op = "ack"
      /\ handlers[h].calls[1].content = handlers[h].msg
      /\ \E i \in DOMAIN messages :
           /\ messages[i].client_offset = handlers[h].clientOffset
           /\ messages[i].content = handlers[h].msg
           /\ messages[i].id = handlers[h].calls[1].id

\* Two different texts were stored, published and acknowledged; the second
\* was published with id 2.
C4_Witness ==
  \E h, g \in HandlerIds :
    /\ h # g
    /\ Stored(handlers[h].result) /\ handlers[h].pc = "done"
    /\ Stored(handlers[g].result) /\ handlers[g].pc = "done"
    /\ handlers[g].calls[1].id = 2
    /\ handlers[h].msg # handlers[g].msg

\* ------------------------------------------------------------------ C5
\* A step in which the handler of a faulted INSERT resumes.
FaultResumes(h) ==
  /\ h \in HandlerIds
  /\ handlers[h].pc = "resumed" /\ handlers'[h].pc = "done"
  /\ Faulted(handlers[h].result)

\* C5: when the INSERT fails with a fault that is not a constraint violation,
\* the handler only logs: it never calls the acknowledgment callback and
\* publishes nothing, so no socket and no worker receives a packet.
C5_FaultNoAckNoBroadcast ==
  [][ \A h \in 1..MaxSubs :
        FaultResumes(h) =>
          /\ handlers'[h].calls = << Call("error", handlers[h].msg, NoID, {}) >>
          /\ socks' = socks /\ inbox' = inbox
          /\ messages' = messages
    ]_vars

\* A faulted submission has been handled and stays unacknowledged, with a
\* socket connected to its worker.
C5_Witness ==
  \E h \in HandlerIds :
    /\ Faulted(handlers[h].result) /\ handlers[h].pc = "done"
    /\ ~Called(h, "ack") /\ ~Called(h, "emit") /\ Called(h, "error")
    /\ ~HasOffset(messages, handlers[h].clientOffset)
    /\ \E s \in SockIds : socks[s].connected /\ socks[s].worker = handlers[h].worker

\* ------------------------------------------------------------------ C6
\* C6 as stated: whenever a handler has called the acknowledgment callback
\* for token T, a row with T is in the table and some handler, on some
\* worker, has already called io.emit for that row.
C6_AckMeansCommittedAndPublished ==
  \A h \in HandlerIds :
    Called(h, "ack") =>
      /\ RowsOf(handlers[h].clientOffset) # {}
      /\ \E g \in HandlerIds :
           /\ handlers[g].clientOffset = handlers[h].clientOffset
           /\ Called(g, "emit")

\* ------------------------------------------------------------------ C7
\* The offset S a socket presented: 0 when it presented none.
LastKnown(s) == IF socks[s].serverOffset = Absent THEN 0 ELSE socks[s].serverOffset

\* The replay of socket s: the rows already sent to it, then those still to send.
ReplayOf(s) ==
  [i \in 1..(Len(Received(s, "replay")) + Len(socks[s].pending)) |->
     IF i <= Len(Received(s, "replay"))
     THEN [id |-> Received(s, "replay")[i].id,
           content |-> Received(s, "replay")[i].content]
     ELSE [id |-> socks[s].pending[i - Len(Received(s, "replay"))].id,
           content |-> socks[s].pending[i - Len(Received(s, "replay"))].content]]

\* The replay query of s has run without fault and s is still connected.
Replaying(s) ==
  /\ ~socks[s].recovered /\ ~socks[s].fault /\ socks[s].connected
  /\ socks[s].pc \in {"rows", "done"}

\* C7: replay completeness.  For a connected socket that was not recovered
\* and presented offset S, the replay consists of exactly the rows the table
\* held when the query ran whose id is greater than S: each of them once, in
\* ascending id order, with its own content, and no row with id <= S.  When
\* the replay is done, all of it has been delivered to the socket.
C7_ReplayComplete ==
  \A s \in SockIds :
    Replaying(s) =>
      /\ \A i \in DOMAIN ReplayOf(s) :
           /\ ReplayOf(s)[i].id > LastKnown(s)
           /\ \E k \in 1..socks[s].snap :
                /\ messages[k].id = ReplayOf(s)[i].id
                /\ messages[k].content = ReplayOf(s)[i].content
      /\ \A k \in 1..socks[s].snap :
           messages[k].id > LastKnown(s) =>
             Cardinality({i \in DOMAIN ReplayOf(s) :
                            ReplayOf(s)[i].id = messages[k].id}) = 1
      /\ \A i, j \in DOMAIN ReplayOf(s) :
           i < j => ReplayOf(s)[i].id < ReplayOf(s)[j].id
      /\ socks[s].pc = "done" => socks[s].pending = << >>

\* One socket presented no offset and got rows 1 and 2 replayed, another
\* presented offset 1 and got row 2 only.
C7_Witness ==
  \E s, u \in SockIds :
    /\ Replaying(s) /\ socks[s].pc = "done" /\ socks[s].serverOffset = Absent
    /\ Len(Received(s, "replay")) = 2
    /\ Replaying(u) /\ socks[u].pc = "done" /\ socks[u].serverOffset = 1
    /\ socks[u].snap = 2
    /\ Len(Received(u, "replay")) = 1

\* ------------------------------------------------------------------ C8
\* C8: a socket the transport reports as recovered gets no replay: the
\* replay query never runs for it and no row is sent to it as replay,
\* whatever offset it presented and however many rows the table holds.
C8_RecoveredNoReplay ==
  \A s \in SockIds :
    socks[s].recovered =>
      /\ Received(s, "replay") = << >>
      /\ socks[s].pending = << >>
      /\ socks[s].pc = "done"
      /\ socks[s].snap = 0

\* A recovered socket is connected while the table holds rows beyond the
\* offset it presented, and it has received a live packet.
C8_Witness ==
  \E s \in SockIds :
    /\ socks[s].recovered /\ socks[s].connected
    /\ \E k \in DOMAIN messages : messages[k].id > LastKnown(s)
    /\ Len(messages) = 2
    /\ Received(s, "live") # << >>

\* ------------------------------------------------------------------ C9
LivePacketOf(h) == Packet("live", handlers[h].msg, handlers[h].result.lastID)

\* C9: fan-out reach.  A handler whose INSERT stored a new row eventually
\* publishes it, and every socket that was connected on any worker when it
\* was published eventually receives the packet with the row's content and
\* id, unless it disconnects.
C9_FanOutReach ==
  /\ \A h \in 1..MaxSubs :
       (h \in HandlerIds /\ Stored(handlers[h].result))
         ~> (h \in HandlerIds /\ Called(h, "emit"))
  /\ \A h \in 1..MaxSubs : \A s \in 1..MaxSocks :
       (h \in HandlerIds /\ Called(h, "emit") /\ s \in EmitOf(h).aud)
         ~> (h \in HandlerIds /\ s \in SockIds
             /\ (~socks[s].connected \/ Got(s, LivePacketOf(h))))

\* A row stored through one worker has reached the sender's own socket and a
\* socket of the other worker, both still connected.
C9_Witness ==
  \E h \in HandlerIds : \E s, u \in SockIds :
    /\ Called(h, "emit")
    /\ s = handlers[h].sock /\ socks[u].worker # handlers[h].worker
    /\ {s, u} \subseteq EmitOf(h).aud
    /\ socks[s].connected /\ socks[u].connected
    /\ Got(s, LivePacketOf(h)) /\ Got(u, LivePacketOf(h))

\* ------------------------------------------------------------------ C10
\* C10 as stated: on every socket, every packet delivered by the recovery
\* replay is delivered before any live broadcast packet.
C10_ReplayBeforeLive ==
  \A s \in SockIds :
    \A i, j \in DOMAIN socks[s].received :
      (i < j /\ socks[s].received[i].kind = "live")
        => socks[s].received[j].kind # "replay"

\* ------------------------------------------------------------------ C12
ProcIds == 1..Len(procs)
Running == {k \in ProcIds : procs[k].state # "dead"}

\* C12 as stated: after a worker process has terminated, the number of
\* running workers eventually returns to the number started at process
\* start.
C12_RestartsDeadWorkers ==
  \A k \in 1..MaxCPUs :
    (k \in ProcIds /\ procs[k].state = "dead")
      ~> (Cardinality(Running) = primary.numCPUs)

\* C12 amended: the coordinator only logs the death of a worker.  It forks
\* no process beyond the numCPUs of its start loop, the step of its exit
\* listener leaves the set of processes unchanged, and a dead worker stays
\* dead: the number of running workers never grows again.
C12_DeathOnlyLogged ==
  [][ /\ Len(procs') <= primary.numCPUs
      /\ primary'.logged # primary.logged => procs' = procs
      /\ \A k \in ProcIds : procs[k].state = "dead" => procs'[k].state = "dead"
    ]_vars

\* The exit listener has run for a dead worker while another worker listens.
C12_Witness ==
  /\ primary.pc = "serving"
  /\ \E k, j \in ProcIds :
       /\ procs[k].state = "dead" /\ k \in primary.logged
       /\ procs[j].state = "listening"
  /\ Cardinality(Running) < primary.numCPUs

\* ------------------------------------------------------------------ C20
\* C20: the coordinator forks one worker per processing unit, numCPUs in
\* all, and the worker forked in round i (from 0) listens on port 3000 + i:
\* no two workers it started listen on the same port.
C20_DistinctPorts ==
  /\ Len(procs) <= primary.numCPUs
  /\ primary.pc = "serving" => Len(procs) = primary.numCPUs
  /\ \A k \in ProcIds :
       procs[k].state = "listening" => procs[k].port = BasePort + (k - 1)
  /\ \A k, j \in ProcIds :
       (k # j /\ procs[k].port # 0 /\ procs[j].port # 0)
         => procs[k].port # procs[j].port

\* availableParallelism() is 3 and the three workers listen.
C20_Witness ==
  /\ primary.pc = "serving" /\ primary.numCPUs = 3
  /\ \A k \in 1..3 : k \in ProcIds /\ procs[k].state = "listening"

\* ------------------------------------------------------------------ C11
\* The results of the INSERTs that stored a row, in the order in which the
\* statements executed (a handler is recorded when its INSERT executes).
NewInserts == SelectSeq(handlers, LAMBDA h : Stored(h.result))

\* C11: whatever rejected duplicates and faults come in between, and from
\* whichever workers, the k-th INSERT that stores a row returns the sequence
\* number of the (k-1)-th plus one, and that number is the id of the k-th row.
C11_MonotonicGapless ==
  /\ Len(NewInserts) = Len(messages)
  /\ \A k \in 1..Len(NewInserts) :
       /\ NewInserts[k].result.lastID = messages[k].id
       /\ k > 1 => NewInserts[k].result.lastID = NewInserts[k - 1].result.lastID + 1

\* A new insert, then a rejected duplicate or a fault, then a new insert on
\* another worker.
C11_Witness ==
  \E a, b, c \in HandlerIds :
    /\ a < b /\ b < c
    /\ Stored(handlers[a].result)
    /\ Rejected(handlers[b].result) \/ Faulted(handlers[b].result)
    /\ Stored(handlers[c].result)
    /\ handlers[a].worker # handlers[c].worker

Resuming(h) == handlers[h].pc = "resumed" /\ handlers'[h].pc = "done"

\* C14: a socket that has disconnected is never written to again, whatever
\* is pending for it (live packets, replay rows, the acknowledgement of its
\* own submission), and it stays disconnected; a handler whose socket
\* disconnected while its INSERT was in flight still finds its row in the
\* table, hands the packet to every connected socket of its worker and to
\* every other worker, and its acknowledgement does not reach the client.
C14_DisconnectInFlight ==
  [][ /\ \A s \in SockIds :
           ~socks[s].connected =>
             /\ ~socks'[s].connected
             /\ socks'[s].received = socks[s].received
      /\ \A h \in HandlerIds :
           (Resuming(h) /\ ~socks[handlers[h].sock].connected) =>
             /\ ~handlers'[h].acked
             /\ Stored(handlers[h].result) =>
                  /\ \E k \in DOMAIN messages :
                       /\ messages[k].id = handlers[h].result.lastID
                       /\ messages[k].content = handlers[h].msg
                       /\ messages[k].client_offset = handlers[h].clientOffset
                  /\ \A u \in SockIds :
                       (socks[u].connected /\ socks[u].worker = handlers[h].worker)
                         => socks'[u].received =
                              Append(socks[u].received, LivePacketOf(h))
                  /\ \A w \in Workers \ {handlers[h].worker} :
                       inbox'[w] = Append(inbox[w], LivePacketOf(h))
    ]_vars

\* The sender disconnected before its handler resumed: it got nothing, not
\* even the acknowledgement, while a socket of its own worker and a socket
\* reached through the other worker's inbox got the packet.
C14_Witness ==
  \E h \in HandlerIds : \E u \in SockIds :
    /\ Stored(handlers[h].result) /\ Called(h, "ack") /\ ~handlers[h].acked
    /\ ~socks[handlers[h].sock].connected
    /\ socks[handlers[h].sock].received = << >>
    /\ u # handlers[h].sock /\ socks[u].connected
    /\ Got(u, LivePacketOf(h))

\* ------------------------------------------------------------------ C15
CallsOf(h, op) == {i \in DOMAIN handlers[h].calls : handlers[h].calls[i].op = op}

\* C15: no submission is acknowledged more than once; the calls of a
\* submission, its acknowledgement among them, are made in the one step in
\* which its handler resumes, on the worker whose socket sent it; a worker
\* that takes a forwarded packet from its inbox calls nothing for any
\* submission.
C15_AckOnceByOrigin ==
  [][ /\ \A h \in HandlerIds :
           /\ handlers'[h].calls # handlers[h].calls =>
                /\ Resuming(h) /\ handlers[h].calls = << >>
                /\ handlers[h].worker = socks[handlers[h].sock].worker
           /\ Cardinality({i \in DOMAIN handlers'[h].calls :
                             handlers'[h].calls[i].op = "ack"}) <= 1
      /\ (\E w \in Workers : inbox[w] # << >> /\ inbox'[w] = Tail(inbox[w]))
           => handlers' = handlers
    ]_vars

\* A submission acknowledged once by its own worker, after the other worker
\* has taken the forwarded packet and delivered it.
C15_Witness ==
  \E h \in HandlerIds : \E u \in SockIds :
    /\ Cardinality(CallsOf(h, "ack")) = 1 /\ handlers[h].acked
    /\ socks[u].worker # handlers[h].worker
    /\ inbox[socks[u].worker] = << >>
    /\ Got(u, LivePacketOf(h))

\* ------------------------------------------------------------------ C16
RowOf(p) == {k \in DOMAIN messages : messages[k].id = p.id /\ messages[k].content = p.content}

\* C16: every packet written to a client, by io.emit or by the recovery
\* replay, carries the content and the id of a row that is in the table when
\* the packet is written.
C16_DeliveredIsStored ==
  [][ \A s \in SockIds :
        \A i \in (Len(socks[s].received) + 1)..Len(socks'[s].received) :
          RowOf(socks'[s].received[i]) # {} ]_vars

\* A socket has got row 1 from the replay and row 2, of another content,
\* from a live broadcast.
C16_Witness ==
  \E s \in SockIds :
    /\ Len(messages) = 2 /\ messages[1].content # messages[2].content
    /\ socks[s].received = << Packet("replay", messages[1].content, 1),
                              Packet("live", messages[2].content, 2) >>

\* ------------------------------------------------------------------ C17
\* C17 as stated: no socket is sent the same sequence number twice; a row
\* stored while the replay of a socket is running reaches it once, as a
\* replay row or as a live packet, never as both.
C17_NoSequenceTwice ==
  \A s \in SockIds :
    \A i, j \in DOMAIN socks[s].received :
      socks[s].received[i].id = socks[s].received[j].id => i = j

\* ------------------------------------------------------------------ C18
\* Socket s has been sent row k, by the replay or by a live broadcast.
SentRow(s, k) ==
  \E i \in DOMAIN socks[s].received :
    /\ socks[s].received[i].id = messages[k].id
    /\ socks[s].received[i].content = messages[k].content

\* C18: a socket that was not recovered and presented offset S is eventually
\* sent every row of the table whose id is greater than S, whether the row
\* was stored before the socket connected, while its replay was pending or
\* afterwards, unless the socket disconnects or its replay query fails.
C18_NoGapAtConnect ==
  \A s \in 1..MaxSocks : \A k \in 1..MaxSubs :
    (/\ s \in SockIds /\ k \in DOMAIN messages
     /\ ~socks[s].recovered /\ messages[k].id > LastKnown(s))
      ~> (/\ s \in SockIds /\ k \in DOMAIN messages
          /\ (~socks[s].connected \/ socks[s].fault \/ SentRow(s, k)))

\* One socket got row 1 from its replay only, another, whose replay query
\* ran on the empty table, from the live broadcast only.
C18_Witness ==
  \E s, u \in SockIds :
    /\ Len(messages) = 1
    /\ ~socks[s].recovered /\ socks[s].connected /\ ~socks[s].fault
    /\ socks[s].received = << Packet("replay", messages[1].content, 1) >>
    /\ ~socks[u].recovered /\ socks[u].connected /\ ~socks[u].fault
    /\ socks[u].pc = "done" /\ socks[u].snap = 0
    /\ socks[u].received = << Packet("live", messages[1].content, 1) >>

\* ------------------------------------------------------------------ C19
\* The handlers that have called io.emit.
Publishers == {h \in HandlerIds : CallsOf(h, "emit") # {}}

\* C19: over all workers, io.emit has been called at most once for each id
\* and at most once for each client offset, each time with the id and the
\* content of a row that is in the table; a handler whose INSERT was
\* rejected as a duplicate has published nothing.
C19_PublishOncePerRow ==
  \A h \in HandlerIds : \A i \in DOMAIN handlers[h].calls :
    handlers[h].calls[i].op = "emit" =>
      /\ ~Rejected(handlers[h].result)
      /\ \E k \in DOMAIN messages :
           /\ messages[k].id = handlers[h].calls[i].id
           /\ messages[k].content = handlers[h].calls[i].content
           /\ messages[k].client_offset = handlers[h].clientOffset
      /\ \A g \in HandlerIds : \A j \in DOMAIN handlers[g].calls :
           (/\ handlers[g].calls[j].op = "emit"
            /\ \/ handlers[g].calls[j].id = handlers[h].calls[i].id
               \/ handlers[g].clientOffset = handlers[h].clientOffset)
             => (g = h /\ j = i)

\* A token was retransmitted through the other worker; both handlers are
\* done, the row was published once, by the handler that stored it.
C19_Witness ==
  \E h, g \in HandlerIds :
    /\ handlers[h].clientOffset = handlers[g].clientOffset
    /\ handlers[h].worker # handlers[g].worker
    /\ Stored(handlers[h].result) /\ Rejected(handlers[g].result)
    /\ handlers[h].pc = "done" /\ handlers[g].pc = "done"
    /\ Publishers = {h}

====
